---- MODULE Spec2Model ----
(***************************************************************************)
(* A model of src/meetup_alarm.py: the publish cycle (MeetupBot.            *)
(* meetup_task), the "Create Discord Event" button (CreateEventButton.      *)
(* callback), the SQLite table `events` behind MeetupBot.event_data_map,    *)
(* and a process restart (MeetupBot.__init__ + setup_hook).                 *)
(*                                                                         *)
(* The bot runs on one asyncio event loop: code between two `await`s is     *)
(* one atomic step, and other coroutines run only while one is suspended    *)
(* in an `await`.  Each action below is the code from one await to the      *)
(* next.  Calls to the chat platform (channel.send, message.edit,           *)
(* create_scheduled_event, interaction.response.send_message) either        *)
(* succeed or raise; the action's `ok` argument is that outcome.            *)
(***************************************************************************)
EXTENDS Integers, Sequences, FiniteSets, Bags, TLC

\* ------------------------------------------------------------------ bounds
MaxListings == 2       \* raw listings gathered in one cycle
MaxCycles == 2         \* publish cycles run in one behaviour
MaxActivations == 2    \* button presses delivered in one behaviour

\* ------------------------------------------------------------------ inputs
\* Raw titles as character sequences; the second one cleans to the first.
RawTitles == { <<"a">>, <<"a", "*">> }
Times == {1, 2}
Clock == {0, 1}
Terms == {"ai"}
Urls == {"u1"}
LocationNames == {"Hall"}
Descriptions == {""}

\* The events get_meetup_events returns (lines 665-675): the fields the model
\* follows.
Listings ==
    [title : RawTitles, time : Times, search_term : Terms, url : Urls,
     location : LocationNames, description : Descriptions]

RECURSIVE SeqsUpTo(_, _)
SeqsUpTo(S, n) ==
    IF n = 0 THEN { <<>> }
    ELSE LET shorter == SeqsUpTo(S, n - 1)
         IN shorter \cup { Append(s, x) : s \in shorter, x \in S }

\* What one cycle can gather into all_events (lines 399-410).
Gathers == SeqsUpTo(Listings, MaxListings)

\* ------------------------------------------------------- title cleaning
IsWordChar(c) == c \in {"a", "b", "h", "t", "p"}
IsSpace(c) == c = " "

\* re.sub(r'\[([^\]]+)\]\([^)]+\)', r'\1', title)   (line 692)
\* The first index >= i of s holding c, or 0.
IndexFrom(s, c, i) ==
    IF \E j \in i..Len(s) : s[j] = c
    THEN CHOOSE j \in i..Len(s) : s[j] = c /\ \A k \in i..(j - 1) : s[k] # c
    ELSE 0

\* The match of the link pattern starting at i: <<end of text, end of match>>
\* or <<0, 0>>.
LinkMatch(s, i) ==
    IF i > Len(s) \/ s[i] # "[" THEN <<0, 0>>
    ELSE LET rb == IndexFrom(s, "]", i + 1)
         IN IF rb < i + 2 \/ rb + 1 > Len(s) \/ s[rb + 1] # "(" THEN <<0, 0>>
            ELSE LET rp == IndexFrom(s, ")", rb + 2)
                 IN IF rp < rb + 3 THEN <<0, 0>> ELSE <<rb, rp>>

RECURSIVE StripLinksFrom(_, _)
StripLinksFrom(s, i) ==
    IF i > Len(s) THEN <<>>
    ELSE LET m == LinkMatch(s, i)
         IN IF m[1] = 0 THEN <<s[i]>> \o StripLinksFrom(s, i + 1)
            ELSE SubSeq(s, i + 1, m[1] - 1) \o StripLinksFrom(s, m[2] + 1)

StripLinks(s) == StripLinksFrom(s, 1)

\* re.sub(r'https?://\S+', '', title)   (line 695).  The character "H" stands
\* for the literal text "http://".
RECURSIVE StripUrlsFrom(_, _, _)
StripUrlsFrom(s, i, inUrl) ==
    IF i > Len(s) THEN <<>>
    ELSE IF inUrl /\ ~IsSpace(s[i]) THEN StripUrlsFrom(s, i + 1, TRUE)
    ELSE IF s[i] = "H" /\ i < Len(s) /\ ~IsSpace(s[i + 1])
         THEN StripUrlsFrom(s, i + 1, TRUE)
    ELSE <<s[i]>> \o StripUrlsFrom(s, i + 1, FALSE)

StripUrls(s) == StripUrlsFrom(s, 1, FALSE)

\* The emphasis characters (star, underscore, tilde, backquote) are removed
\* (line 698); the model's alphabet has the first three.
StripEmphasis(s) == SelectSeq(s, LAMBDA c : c \notin {"*", "_", "~"})

\* re.sub(r'\[.*?\]', '', title) and re.sub(r'\(.*?\)', '', title)
\* (lines 701, 704): from an opener to the first closer after it.
RECURSIVE StripSpansFrom(_, _, _, _)
StripSpansFrom(s, i, open, close) ==
    IF i > Len(s) THEN <<>>
    ELSE LET e == IF s[i] = open THEN IndexFrom(s, close, i + 1) ELSE 0
         IN IF e = 0 THEN <<s[i]>> \o StripSpansFrom(s, i + 1, open, close)
            ELSE StripSpansFrom(s, e + 1, open, close)

StripBrackets(s) == StripSpansFrom(s, 1, "[", "]")
StripParens(s) == StripSpansFrom(s, 1, "(", ")")

\* re.sub(r'[^\w\s\-.,!?]', '', title)   (line 707).  Of "http://" the word
\* characters stay.
RECURSIVE StripSpecialFrom(_, _)
StripSpecialFrom(s, i) ==
    IF i > Len(s) THEN <<>>
    ELSE (IF s[i] = "H" THEN <<"h", "t", "t", "p">>
          ELSE IF IsWordChar(s[i]) \/ IsSpace(s[i])
                  \/ s[i] \in {"-", ".", ",", "!", "?"} THEN <<s[i]>>
          ELSE <<>>) \o StripSpecialFrom(s, i + 1)

StripSpecial(s) == StripSpecialFrom(s, 1)

\* ' '.join(title.split())   (line 710)
RECURSIVE CollapseFrom(_, _, _)
CollapseFrom(s, i, out) ==
    IF i > Len(s) THEN out
    ELSE IF IsSpace(s[i]) THEN CollapseFrom(s, i + 1, out)
    ELSE IF i > 1 /\ IsSpace(s[i - 1]) /\ out # <<>>
         THEN CollapseFrom(s, i + 1, out \o <<" ", s[i]>>)
    ELSE CollapseFrom(s, i + 1, Append(out, s[i]))

CollapseSpaces(s) == CollapseFrom(s, 1, <<>>)

\* A pipeline that collapses the whitespace before the disallowed characters
\* are removed.
CleanTitleCollapseFirst(s) ==
    StripSpecial(CollapseSpaces(StripParens(StripBrackets(
        StripEmphasis(StripUrls(StripLinks(s)))))))

\* The title-cleaning pipeline of format_event_message (lines 689-710).
CleanTitle(s) ==
    CollapseSpaces(StripSpecial(StripParens(StripBrackets(
        StripEmphasis(StripUrls(StripLinks(s)))))))

\* ------------------------------------------------------------ datetimes
\* An instant is a whole number of hours.  datetime.isoformat() (lines 299,
\* 300, 473) gives a text, datetime.fromisoformat() (lines 249, 250) reads it
\* back.
IsoFormat(t) == <<"iso", t>>
FromIsoFormat(s) == s[2]

\* ------------------------------------------------------ event messages
\* str(location_text).strip()   (lines 753, 792): of the model's texts one
\* is made of whitespace only.
Strip(text) == IF text = " " THEN "" ELSE text

\* message_data['event_data'] of format_event_message (lines 786-795).
format_event_message(event) ==
    [title |-> CleanTitle(event.title),
     start_time |-> event.time,
     end_time |-> event.time + 1,
     location |-> IF event.location # "" /\ Strip(event.location) # ""
                  THEN event.location ELSE "Online",
     description |-> event.description,
     url |-> event.url]

\* --------------------------------------------------------- aggregation
\* {event['title']: event for event in all_events}.values()   (line 417):
\* keys in first-seen order, each with its last-seen event.
Dedup(evs) ==
    LET n == Len(evs)
        firsts == SelectSeq([i \in 1..n |-> i],
                     LAMBDA i : \A j \in 1..(i - 1) : evs[j].title # evs[i].title)
        last(i) == CHOOSE j \in i..n :
                      /\ evs[j].title = evs[i].title
                      /\ \A k \in (j + 1)..n : evs[k].title # evs[i].title
    IN [k \in 1..Len(firsts) |-> evs[last(firsts[k])]]

\* A filter that keeps the events that start at `now`.
FutureOrNow(evs, t) == SelectSeq(evs, LAMBDA e : e.time >= t)

\* [event for event in unique_events if event['time'] > now]   (line 423)
FutureOnly(evs, t) == SelectSeq(evs, LAMBDA e : e.time > t)

\* sorted(future_events, key=lambda x: x['time'])   (line 427): stable.
RECURSIVE InsertByTime(_, _)
InsertByTime(e, s) ==
    IF s = <<>> \/ Head(s).time >= e.time THEN <<e>> \o s
    ELSE <<Head(s)>> \o InsertByTime(e, Tail(s))

RECURSIVE SortByTime(_)
SortByTime(s) ==
    IF s = <<>> THEN <<>> ELSE InsertByTime(Head(s), SortByTime(Tail(s)))

\* A publish order that is the sorted order, ungrouped.
PublishSorted(sorted) == sorted

\* events_by_search_term (lines 456-461) read in the order of lines 464-465:
\* the terms in first-seen order, each with its events in sorted order.
PublishOrder(sorted) ==
    LET n == Len(sorted)
        firsts == SelectSeq([i \in 1..n |-> i],
                     LAMBDA i : \A j \in 1..(i - 1) :
                                   sorted[j].search_term # sorted[i].search_term)
        group(i) == SelectSeq(sorted,
                       LAMBDA e : e.search_term = sorted[i].search_term)
        RECURSIVE Flatten(_)
        Flatten(k) == IF k > Len(firsts) THEN <<>>
                      ELSE group(firsts[k]) \o Flatten(k + 1)
    IN Flatten(1)

\* The events one cycle posts, in order (lines 417-427, 456-465).
EventsToPost(all_events, t) ==
    PublishOrder(SortByTime(FutureOnly(Dedup(all_events), t)))


\* ------------------------------------------------------------------ state
VARIABLES
    now,             \* the wall clock, in hours
    cycles,          \* how many publish cycles were started
    clicks,          \* how many button presses were delivered
    uuids,           \* how many identifiers uuid.uuid4() has handed out
    db,              \* the table `events` of events.db: uuid -> row
    event_data_map,  \* MeetupBot.event_data_map: uuid -> event_data
    views,           \* the CreateEventViews this process dispatches presses to
    msgs,            \* the event messages in the channel, oldest first
    task,            \* the meetup_task coroutine
    acts,            \* the CreateEventButton.callback runs in flight (a bag)
    scheduled,       \* the guild's scheduled events, oldest first
    log,             \* what ended callbacks have done: a set of [uuid, what]
    agg,             \* the values meetup_task computed on the way to its queue
    attempts,        \* the events of this cycle whose channel.send was awaited
    page,            \* the JSON-LD items the last fetch of the cycle found
    wall,            \* the clock datetime.now(tz) reads, in ticks
    immediate_mode,  \* MeetupBot.immediate_mode (--now)
    closed,          \* MeetupBot.is_closed()
    loop,            \* the weekly_meetup_task coroutine
    ready,           \* the on_ready coroutine
    runs,            \* the control state of each caller's meetup_task
    started,         \* how many times meetup_task was entered
    given,           \* the input a function of the program is applied to
    returned         \* what the function returned for it

vars == <<now, cycles, clicks, uuids, db, event_data_map, views, msgs, task,
          acts, scheduled, log, agg, attempts, page, wall, immediate_mode,
          closed, loop, ready, runs, started, given, returned>>

\* The bot's data and coroutines that serve cycles and buttons.
botvars == <<now, cycles, clicks, uuids, db, event_data_map, views, msgs, task,
             acts, scheduled, log>>

\* The scheduling of cycles: the clock, the mode and the two callers of
\* meetup_task.
loopvars == <<wall, immediate_mode, closed, loop, ready, runs, started>>

\* What a cycle records of itself for the claims about aggregation.
cyclevars == <<agg, attempts, page>>

\* A function of the program taken by itself: its input and its output.
funvars == <<given, returned>>

\* No function was applied by itself.
NoValue == [status |-> "none"]

FunInit ==
    /\ given = NoValue
    /\ returned = NoValue

\* No cycle has aggregated anything yet.
NoAggregate ==
    [all_events |-> <<>>, now |-> 0, today |-> 0, unique_events |-> <<>>,
     future_events |-> <<>>, sorted_events |-> <<>>, this_week |-> <<>>,
     next_week |-> <<>>]

NoEventData ==
    [title |-> <<>>, start_time |-> 0, end_time |-> 0, location |-> "",
     description |-> "", url |-> ""]

Idle == [pc |-> "idle", queue |-> <<>>, uuid |-> 0, event_data |-> NoEventData]

\* The callers of meetup_task: weekly_meetup_task (line 390) and on_ready
\* (line 359).
Callers == {"loop", "ready"}

\* No meetup_task is running for this caller.
NoRun == [pc |-> "none", left |-> 0]

\* setup_hook has created the task of weekly_meetup_task, which waits in
\* wait_until_ready (lines 348, 377); the gateway is not ready yet.
LoopInit ==
    /\ closed = FALSE
    /\ loop = [pc |-> "wait_ready", now |-> 0, next_post |-> 0, fired |-> {}]
    /\ ready = "pending"
    /\ runs = [c \in Callers |-> NoRun]
    /\ started = 0

\* MeetupBot.__init__ on an empty events.db: init_db creates the table,
\* load_event_data finds no rows (lines 207-210).
BotInit ==
    /\ now = 0
    /\ cycles = 0
    /\ clicks = 0
    /\ uuids = 0
    /\ db = <<>>
    /\ event_data_map = <<>>
    /\ views = {}
    /\ msgs = <<>>
    /\ task = Idle
    /\ acts = EmptyBag
    /\ scheduled = <<>>
    /\ log = {}
    /\ agg = NoAggregate
    /\ attempts = <<>>
    /\ page = <<>>

\* The bot started in scheduled mode, with the cycles' timing left open.
Init ==
    /\ BotInit
    /\ LoopInit
    /\ FunInit
    /\ wall = 0
    /\ immediate_mode = FALSE

\* ---------------------------------------------------------- the table
\* A function without the key u.
Without(f, u) == [k \in DOMAIN f \ {u} |-> f[k]]

\* The same function with f[u] = v, u added if need be.
With(f, u, v) == [k \in DOMAIN f \cup {u} |-> IF k = u THEN v ELSE f[k]]

\* save_event_data (lines 285-322): INSERT OR REPLACE of the row; an error
\* of the store (ok = FALSE) is logged and swallowed.  event_data of
\* format_event_message has no calendar_url and no location_url (lines 314,
\* 315).
save_event_data(table, event_uuid, event_data, ok) ==
    IF ok
    THEN With(table, event_uuid,
              [title |-> event_data.title,
               start_time |-> IsoFormat(event_data.start_time),
               end_time |-> IsoFormat(event_data.end_time),
               location |-> event_data.location,
               description |-> event_data.description,
               url |-> event_data.url,
               calendar_url |-> "None",
               location_url |-> "None"])
    ELSE table

\* delete_event_data (lines 324-335): DELETE ... WHERE uuid = ?; an error of
\* the store is logged and swallowed.
delete_event_data(table, event_uuid, ok) ==
    IF ok THEN Without(table, event_uuid) ELSE table

\* A load that reads the start instant from the wrong column.
LoadWrongColumn(table, ok) ==
    [u \in DOMAIN table |->
        [title |-> table[u].title,
         start_time |-> FromIsoFormat(table[u].end_time),
         end_time |-> FromIsoFormat(table[u].end_time),
         location |-> table[u].location,
         description |-> table[u].description,
         url |-> table[u].url,
         calendar_url |-> table[u].calendar_url,
         location_url |-> table[u].location_url]]

\* load_event_data (lines 237-283): every row becomes an entry of the map; an
\* error of the store leaves the map empty (line 283).
load_event_data(table, ok) ==
    IF ok
    THEN [u \in DOMAIN table |->
             [title |-> table[u].title,
              start_time |-> FromIsoFormat(table[u].start_time),
              end_time |-> FromIsoFormat(table[u].end_time),
              location |-> table[u].location,
              description |-> table[u].description,
              url |-> table[u].url,
              calendar_url |-> table[u].calendar_url,
              location_url |-> table[u].location_url]]
    ELSE <<>>

\* A SELECT that matches on the title alone.
SelectUuidByTitle(table, title, start_time) ==
    { u \in DOMAIN table : table[u].title = title }

\* SELECT uuid FROM events WHERE title = ? AND start_time = ?  (lines 469-475):
\* the uuids of the matching rows.
SelectUuid(table, title, start_time) ==
    { u \in DOMAIN table :
        table[u].title = title /\ table[u].start_time = IsoFormat(start_time) }

\* CreateEventView(event_uuid, ..., disabled=False) (lines 175-178): the view
\* with the button create_event_<uuid>.
CreateEventView(event_uuid, disabled) == [uuid |-> event_uuid, disabled |-> disabled]

\* setup_hook (lines 343-345): an enabled view for every entry of the map.
setup_hook(map) == { CreateEventView(u, FALSE) : u \in DOMAIN map }

\* ------------------------------------------------------------ the cycle
\* A loop that reserves a new identifier whatever the SELECT returns.
PostNextAlwaysReserves(queue, saveOk) ==
    IF queue = <<>>
    THEN /\ task' = Idle
         /\ UNCHANGED <<uuids, db, event_data_map>>
    ELSE LET event_data == format_event_message(Head(queue))
             event_uuid == uuids + 1
         IN /\ uuids' = event_uuid
            /\ event_data_map' = With(event_data_map, event_uuid, event_data)
            /\ db' = save_event_data(db, event_uuid, event_data, saveOk)
            /\ task' = [pc |-> "send_event", queue |-> Tail(queue),
                        uuid |-> event_uuid, event_data |-> event_data]

\* One pass of the loop body of lines 465-489 up to the await of line 489,
\* for the first event of `queue`; with nothing left, meetup_task returns.
PostNext(queue, saveOk) ==
    IF queue = <<>>
    THEN /\ task' = Idle
         /\ UNCHANGED <<uuids, db, event_data_map>>
    ELSE LET event_data == format_event_message(Head(queue))
             result == SelectUuid(db, event_data.title, event_data.start_time)
         IN IF result # {}
            THEN \E event_uuid \in result :
                    /\ task' = [pc |-> "send_event", queue |-> Tail(queue),
                                uuid |-> event_uuid, event_data |-> event_data]
                    /\ UNCHANGED <<uuids, db, event_data_map>>
            ELSE LET event_uuid == uuids + 1
                 IN /\ uuids' = event_uuid
                    /\ event_data_map' = With(event_data_map, event_uuid, event_data)
                    /\ db' = save_event_data(db, event_uuid, event_data, saveOk)
                    /\ task' = [pc |-> "send_event", queue |-> Tail(queue),
                                uuid |-> event_uuid, event_data |-> event_data]

\* meetup_task from its start to the await of the header send (lines 392-448).
\* The fetches and the sleeps between them block the event loop (lines 404,
\* 410), so the whole gathering is one step.
CycleStart ==
    /\ task.pc = "idle"
    /\ cycles < MaxCycles
    /\ cycles' = cycles + 1
    /\ \E t \in Clock, all_events \in Gathers :
          /\ t >= now
          /\ now' = t
          /\ IF all_events = <<>>
             THEN task' = Idle
             ELSE task' = [pc |-> "send_header",
                           queue |-> EventsToPost(all_events, t),
                           uuid |-> 0, event_data |-> NoEventData]
    /\ UNCHANGED <<clicks, uuids, db, event_data_map, views, msgs, acts,
                   scheduled, log>>

\* The header send returns (lines 448-453): on success the task sleeps, on
\* an HTTPException meetup_task returns.
CycleHeader(ok) ==
    /\ task.pc = "send_header"
    /\ task' = IF ok THEN [task EXCEPT !.pc = "sleep"] ELSE Idle
    /\ UNCHANGED <<now, cycles, clicks, uuids, db, event_data_map, views, msgs,
                   acts, scheduled, log>>

\* asyncio.sleep(2) returns (lines 450, 491): the next event, if any.
CycleWake(saveOk) ==
    /\ task.pc = "sleep"
    /\ PostNext(task.queue, saveOk)
    /\ UNCHANGED <<now, cycles, clicks, views, msgs, acts, scheduled, log>>

\* channel.send of an event message returns (line 489).  Sent, the message
\* is in the channel with its view live in this process, and the task sleeps
\* (line 491); on an HTTPException the loop continues with the next event at
\* once (lines 492-494).
CycleSend(ok, saveOk) ==
    /\ task.pc = "send_event"
    /\ IF ok
       THEN /\ msgs' = Append(msgs, [uuid |-> task.uuid, disabled |-> FALSE,
                                     cycle |-> cycles])
            /\ views' = views \cup {CreateEventView(task.uuid, FALSE)}
            /\ task' = [task EXCEPT !.pc = "sleep"]
            /\ UNCHANGED <<uuids, db, event_data_map>>
       ELSE /\ PostNext(task.queue, saveOk)
            /\ UNCHANGED <<msgs, views>>
    /\ UNCHANGED <<now, cycles, clicks, acts, scheduled, log>>

\* ---------------------------------------------------------- the button
\* The callback r goes on as r2, or ends.
Step(r, r2) == acts' = (acts (-) SetToBag({r})) (+) SetToBag({r2})
End(r) == acts' = acts (-) SetToBag({r})

\* The callbacks that have looked the record of event_uuid up, found it, and
\* are between that lookup (line 85) and its removal (lines 149-150).
Holding(event_uuid) ==
    { r \in BagToSet(acts) :
        r.uuid = event_uuid /\ r.found /\ r.pc \in {"create", "edit", "confirm"} }

\* A press that goes on to the external action without the test of line 87.
ClickButtonNoTest(m) ==
    /\ clicks < MaxActivations
    /\ m \in 1..Len(msgs)
    /\ ~msgs[m].disabled
    /\ \E v \in views : v.uuid = msgs[m].uuid
    /\ clicks' = clicks + 1
    /\ LET event_uuid == msgs[m].uuid
           found == event_uuid \in DOMAIN event_data_map
           event_data == IF found THEN event_data_map[event_uuid] ELSE NoEventData
       IN acts' = acts (+) SetToBag({
             [uuid |-> event_uuid,
              msg |-> m,
              found |-> found,
              pc |-> "create",
              title |-> event_data.title,
              start_time |-> event_data.start_time,
              raced |-> found /\ Holding(event_uuid) # {},
              retry |-> [uuid |-> event_uuid, what |-> "create_failed"] \in log,
              created |-> FALSE,
              responded |-> FALSE,
              send_failed |-> FALSE,
              key_error |-> FALSE] })
    /\ UNCHANGED <<now, cycles, uuids, db, event_data_map, views, msgs, task,
                   scheduled, log>>

\* A member presses the button of message m and CreateEventButton.callback
\* runs to its first await (lines 71-104, or 71-89 when the lookup of line 85
\* finds nothing).  The platform delivers presses of enabled buttons only,
\* and the process dispatches them to a view it holds.
ClickButton(m) ==
    /\ clicks < MaxActivations
    /\ m \in 1..Len(msgs)
    /\ ~msgs[m].disabled
    /\ \E v \in views : v.uuid = msgs[m].uuid
    /\ clicks' = clicks + 1
    /\ LET event_uuid == msgs[m].uuid
           found == event_uuid \in DOMAIN event_data_map
           event_data == IF found THEN event_data_map[event_uuid] ELSE NoEventData
       IN acts' = acts (+) SetToBag({
             [uuid |-> event_uuid,
              msg |-> m,
              found |-> found,
              pc |-> IF found THEN "create" ELSE "not_found",
              title |-> event_data.title,
              start_time |-> event_data.start_time,
              raced |-> found /\ Holding(event_uuid) # {},
              retry |-> [uuid |-> event_uuid, what |-> "create_failed"] \in log,
              created |-> FALSE,
              responded |-> FALSE,
              send_failed |-> FALSE,
              key_error |-> FALSE] })
    /\ UNCHANGED <<now, cycles, uuids, db, event_data_map, views, msgs, task,
                   scheduled, log>>

\* The "not found" notice of line 89 returns; the callback returns (line 90)
\* or, the send having raised, enters the handler of lines 152-155.
CallbackNotFound(r, ok) ==
    /\ r \in BagToSet(acts)
    /\ r.pc = "not_found"
    /\ IF ok
       THEN /\ End(r)
            /\ log' = log \cup {[uuid |-> r.uuid, what |-> "not_found"]}
       ELSE /\ Step(r, [r EXCEPT !.pc = "error", !.send_failed = TRUE])
            /\ UNCHANGED log
    /\ UNCHANGED <<now, cycles, clicks, uuids, db, event_data_map, views, msgs,
                   task, scheduled>>

\* A callback that removes the record when the external action fails.
CallbackCreateDropsOnFailure(r, ok) ==
    /\ r \in BagToSet(acts)
    /\ r.pc = "create"
    /\ IF ok
       THEN /\ Step(r, [r EXCEPT !.pc = "edit", !.created = TRUE])
            /\ scheduled' = Append(scheduled,
                               [uuid |-> r.uuid, title |-> r.title,
                                start_time |-> r.start_time, raced |-> r.raced,
                                retry |-> r.retry, prior |-> FALSE])
            /\ UNCHANGED <<log, db, event_data_map>>
       ELSE /\ Step(r, [r EXCEPT !.pc = "error"])
            /\ log' = log \cup {[uuid |-> r.uuid, what |-> "create_failed"]}
            /\ event_data_map' = Without(event_data_map, r.uuid)
            /\ db' = delete_event_data(db, r.uuid, TRUE)
            /\ UNCHANGED scheduled
    /\ UNCHANGED <<now, cycles, clicks, uuids, views, msgs, task>>

\* create_scheduled_event returns (lines 104-112).  Created, the guild has
\* the event and the callback goes on to the await of message.edit (lines
\* 114-143); on an error it enters the handler of lines 152-155.
CallbackCreate(r, ok) ==
    /\ r \in BagToSet(acts)
    /\ r.pc = "create"
    /\ IF ok
       THEN /\ Step(r, [r EXCEPT !.pc = "edit", !.created = TRUE])
            /\ scheduled' = Append(scheduled,
                               [uuid |-> r.uuid, title |-> r.title,
                                start_time |-> r.start_time, raced |-> r.raced,
                                retry |-> r.retry, prior |-> FALSE])
            /\ UNCHANGED log
       ELSE /\ Step(r, [r EXCEPT !.pc = "error"])
            /\ log' = log \cup {[uuid |-> r.uuid, what |-> "create_failed"]}
            /\ UNCHANGED scheduled
    /\ UNCHANGED <<now, cycles, clicks, uuids, db, event_data_map, views, msgs, task>>

\* message.edit(view=new_view) returns (lines 142-143): the message's button
\* is disabled, and the callback awaits the confirmation of line 146.
CallbackEdit(r, ok) ==
    /\ r \in BagToSet(acts)
    /\ r.pc = "edit"
    /\ IF ok
       THEN /\ msgs' = [msgs EXCEPT ![r.msg].disabled = TRUE]
            /\ Step(r, [r EXCEPT !.pc = "confirm"])
       ELSE /\ Step(r, [r EXCEPT !.pc = "error"])
            /\ UNCHANGED msgs
    /\ UNCHANGED <<now, cycles, clicks, uuids, db, event_data_map, views, task,
                   scheduled, log>>

\* The removal of lines 149-150, after which the callback returns:
\* del bot.event_data_map[event_uuid], which raises KeyError for a missing
\* key (and the handler of lines 152-155 is entered), then
\* bot.delete_event_data(event_uuid).
Consume(r, deleteOk) ==
    IF r.uuid \in DOMAIN event_data_map
    THEN /\ event_data_map' = Without(event_data_map, r.uuid)
         /\ db' = delete_event_data(db, r.uuid, deleteOk)
         /\ End(r)
    ELSE /\ Step(r, [r EXCEPT !.pc = "error", !.responded = TRUE,
                              !.key_error = TRUE])
         /\ UNCHANGED <<db, event_data_map>>

\* The confirmation of line 146 returns; sent, the record is removed (lines
\* 149-150) with no await in between.
CallbackConfirm(r, ok, deleteOk) ==
    /\ r \in BagToSet(acts)
    /\ r.pc = "confirm"
    /\ IF ok
       THEN Consume(r, deleteOk)
       ELSE /\ Step(r, [r EXCEPT !.pc = "error", !.send_failed = TRUE])
            /\ UNCHANGED <<db, event_data_map>>
    /\ UNCHANGED <<now, cycles, clicks, uuids, views, msgs, task, scheduled, log>>

\* A handler that removes the record before its notice.
CallbackErrorConsumes(r) ==
    /\ r \in BagToSet(acts)
    /\ r.pc = "error"
    /\ End(r)
    /\ event_data_map' = Without(event_data_map, r.uuid)
    /\ db' = delete_event_data(db, r.uuid, TRUE)
    /\ UNCHANGED <<now, cycles, clicks, uuids, views, msgs, task, scheduled, log>>

\* The error notice of the handler returns (line 155) and the callback ends.
\* A second response to one interaction raises InteractionResponded; an
\* exception raised in the handler leaves the callback.
CallbackError(r) ==
    /\ r \in BagToSet(acts)
    /\ r.pc = "error"
    /\ End(r)
    /\ UNCHANGED <<now, cycles, clicks, uuids, db, event_data_map, views, msgs,
                   task, scheduled, log>>

\* ------------------------------------------------------------- restart
\* The process stops at any point and starts again: every coroutine is gone,
\* MeetupBot.__init__ loads the table into an empty map (lines 207-210) and
\* setup_hook registers an enabled view for each entry (lines 343-345).  The
\* channel's messages and the guild's events are the platform's and stay.
Restart(loadOk) ==
    /\ event_data_map' = load_event_data(db, loadOk)
    /\ views' = setup_hook(event_data_map')
    /\ task' = Idle
    /\ acts' = EmptyBag
    /\ scheduled' = [k \in 1..Len(scheduled) |-> [scheduled[k] EXCEPT !.prior = TRUE]]
    /\ UNCHANGED <<now, cycles, clicks, uuids, db, msgs, log>>

\* ------------------------------------------------------ specifications
\* The program with a durable store whose operations succeed.
Next ==
    \/ CycleStart /\ UNCHANGED <<cyclevars, loopvars, funvars>>
    \/ \E ok \in BOOLEAN : CycleHeader(ok) /\ UNCHANGED <<cyclevars, loopvars, funvars>>
    \/ CycleWake(TRUE) /\ UNCHANGED <<cyclevars, loopvars, funvars>>
    \/ \E ok \in BOOLEAN : CycleSend(ok, TRUE) /\ UNCHANGED <<cyclevars, loopvars, funvars>>
    \/ \E m \in 1..Len(msgs) : ClickButton(m) /\ UNCHANGED <<cyclevars, loopvars, funvars>>
    \/ \E r \in BagToSet(acts), ok \in BOOLEAN : CallbackNotFound(r, ok) /\ UNCHANGED <<cyclevars, loopvars, funvars>>
    \/ \E r \in BagToSet(acts), ok \in BOOLEAN : CallbackCreate(r, ok) /\ UNCHANGED <<cyclevars, loopvars, funvars>>
    \/ \E r \in BagToSet(acts), ok \in BOOLEAN : CallbackEdit(r, ok) /\ UNCHANGED <<cyclevars, loopvars, funvars>>
    \/ \E r \in BagToSet(acts), ok \in BOOLEAN : CallbackConfirm(r, ok, TRUE) /\ UNCHANGED <<cyclevars, loopvars, funvars>>
    \/ \E r \in BagToSet(acts) : CallbackError(r) /\ UNCHANGED <<cyclevars, loopvars, funvars>>
    \/ Restart(TRUE) /\ UNCHANGED <<cyclevars, loopvars, funvars>>

Spec == Init /\ [][Next]_vars

\* The same program with a store whose operations can fail: sqlite3 raises
\* in save_event_data, delete_event_data or load_event_data, which log the
\* error and return (lines 320-322, 334-335, 281-283).  The platform's calls
\* succeed here.
NextDbFault ==
    \/ CycleStart /\ UNCHANGED <<cyclevars, loopvars, funvars>>
    \/ CycleHeader(TRUE) /\ UNCHANGED <<cyclevars, loopvars, funvars>>
    \/ \E saveOk \in BOOLEAN : CycleWake(saveOk) /\ UNCHANGED <<cyclevars, loopvars, funvars>>
    \/ \E saveOk \in BOOLEAN : CycleSend(TRUE, saveOk) /\ UNCHANGED <<cyclevars, loopvars, funvars>>
    \/ \E m \in 1..Len(msgs) : ClickButton(m) /\ UNCHANGED <<cyclevars, loopvars, funvars>>
    \/ \E r \in BagToSet(acts) : CallbackNotFound(r, TRUE) /\ UNCHANGED <<cyclevars, loopvars, funvars>>
    \/ \E r \in BagToSet(acts) : CallbackCreate(r, TRUE) /\ UNCHANGED <<cyclevars, loopvars, funvars>>
    \/ \E r \in BagToSet(acts) : CallbackEdit(r, TRUE) /\ UNCHANGED <<cyclevars, loopvars, funvars>>
    \/ \E r \in BagToSet(acts), deleteOk \in BOOLEAN : CallbackConfirm(r, TRUE, deleteOk) /\ UNCHANGED <<cyclevars, loopvars, funvars>>
    \/ \E r \in BagToSet(acts) : CallbackError(r) /\ UNCHANGED <<cyclevars, loopvars, funvars>>
    \/ \E loadOk \in BOOLEAN : Restart(loadOk) /\ UNCHANGED <<cyclevars, loopvars, funvars>>

SpecDbFault == Init /\ [][NextDbFault]_vars

\* ------------------------------------------- the cycle, value by value
\* The cycle alone, with what meetup_task computes between its gathering and
\* its publish loop kept in agg, over listings that differ in search term
\* and lie days apart.  Instants are in hours.
CycleTimes == {1, 192, 400}
CycleTerms == {"ai", "ml"}

CycleTitles == RawTitles \cup { <<"b">> }

CycleListings ==
    [title : CycleTitles, time : CycleTimes, search_term : CycleTerms,
     url : Urls, location : LocationNames, description : Descriptions]

\* One behaviour follows MaxCycleRuns cycles of up to MaxGathered listings.
MaxGathered == 3
MaxCycleRuns == 1

CycleGathers == SeqsUpTo(CycleListings, MaxGathered)

\* The clock read again at line 430, at or after the reading of line 422.
LaterReadings(t) == {t, t + 2}

\* (event_time - today).days   (line 436): whole days, rounded down.
HoursPerDay == 24
DaysDiff(event_time, today) == (event_time - today) \div HoursPerDay

\* this_week and next_week (lines 431-441).
ThisWeek(sorted_events, today) ==
    SelectSeq(sorted_events,
              LAMBDA e : 0 <= DaysDiff(e.time, today) /\ DaysDiff(e.time, today) <= 7)

NextWeek(sorted_events, today) ==
    SelectSeq(sorted_events,
              LAMBDA e : /\ ~(0 <= DaysDiff(e.time, today) /\ DaysDiff(e.time, today) <= 7)
                         /\ 8 <= DaysDiff(e.time, today)
                         /\ DaysDiff(e.time, today) <= 14)

\* meetup_task from line 413 to the await of the header send (line 448),
\* as in CycleStart, with every value it computes kept in agg.
AggregateFrom(all_events, t, today) ==
    /\ task.pc = "idle"
    /\ cycles < MaxCycles
    /\ cycles' = cycles + 1
    /\ t >= now
    /\ now' = t
    /\ LET unique_events == Dedup(all_events)
           future_events == FutureOnly(unique_events, t)
           sorted_events == SortByTime(future_events)
       IN /\ agg' = [all_events |-> all_events,
                     now |-> t,
                     today |-> today,
                     unique_events |-> unique_events,
                     future_events |-> future_events,
                     sorted_events |-> sorted_events,
                     this_week |-> ThisWeek(sorted_events, today),
                     next_week |-> NextWeek(sorted_events, today)]
          /\ IF all_events = <<>>
             THEN task' = Idle
             ELSE task' = [pc |-> "send_header",
                           queue |-> PublishOrder(sorted_events),
                           uuid |-> 0, event_data |-> NoEventData]
    /\ attempts' = <<>>
    /\ UNCHANGED <<clicks, uuids, db, event_data_map, views, msgs, acts,
                   scheduled, log>>

\* meetup_task from its start to the await of the header send (lines
\* 392-448) over the listings of CycleGathers.
CycleAggregate ==
    /\ cycles < MaxCycleRuns
    /\ \E t \in Clock, all_events \in CycleGathers :
          \E today \in LaterReadings(t) : AggregateFrom(all_events, t, today)
    /\ UNCHANGED page

\* The loop of lines 464-489 has reached channel.send for the next event.
Attempt ==
    attempts' = IF task'.pc = "send_event"
                THEN Append(attempts, Head(task.queue))
                ELSE attempts

NextCycle ==
    \/ CycleAggregate /\ UNCHANGED <<loopvars, funvars>>
    \/ \E ok \in BOOLEAN : CycleHeader(ok) /\ UNCHANGED <<cyclevars, loopvars, funvars>>
    \/ CycleWake(TRUE) /\ UNCHANGED <<agg, page>> /\ Attempt /\ UNCHANGED <<loopvars, funvars>>
    \/ \E ok \in BOOLEAN : CycleSend(ok, TRUE) /\ UNCHANGED <<agg, page>> /\ Attempt /\ UNCHANGED <<loopvars, funvars>>

SpecCycle == Init /\ [][NextCycle]_vars

\* ----------------------------------------------------------- the scraper
\* The items of the page's JSON-LD blocks (lines 596-606): objects that may
\* lack any of the keys name, url and startDate.  A name is a character
\* sequence; a startDate is empty, malformed, or an ISO instant.
ItemKeys == {"name", "url", "startDate"}
ItemNames == { <<>>, <<"a">> }
ItemUrls == {"u1"}
ItemStartDates == { <<"bad">>, IsoFormat(1) }

Items ==
    { [keys |-> K, name |-> n, url |-> u, startDate |-> d] :
        K \in SUBSET ItemKeys,
        n \in ItemNames, u \in ItemUrls \cup {""}, d \in ItemStartDates \cup {<<>>} }

\* One object per set of keys and values: a key that is absent has no value.
JsonItems ==
    { item \in Items :
        /\ "name" \notin item.keys => item.name = <<>>
        /\ "url" \in item.keys <=> item.url # ""
        /\ "startDate" \in item.keys <=> item.startDate # <<>> }

Pages == SeqsUpTo(JsonItems, MaxListings)

\* event.get(key, default)   (lines 617-619)
ItemGet(item, key, default) == IF key \in item.keys THEN item[key] ELSE default

\* datetime.fromisoformat accepts the string (line 622); otherwise it raises
\* ValueError, which the handler of lines 676-678 turns into `continue`.
IsIsoString(s) == Len(s) = 2 /\ s[1] = "iso"

\* The body of the loop of lines 614-678 for one item: the events it appends.
\* An item of these has no location, organizer or description key.
ScrapeItem(item, search_term) ==
    LET title == ItemGet(item, "name", <<>>)
        url == ItemGet(item, "url", "")
        time_str == ItemGet(item, "startDate", <<>>)
    IN IF time_str = <<>> THEN <<>>
       ELSE IF ~IsIsoString(time_str) THEN <<>>
       ELSE << [title |-> title,
                time |-> FromIsoFormat(time_str),
                search_term |-> search_term,
                url |-> url,
                location |-> "",
                description |-> ""] >>

\* get_meetup_events (lines 564-684) on a page that was fetched and parsed.
RECURSIVE get_meetup_events(_, _)
get_meetup_events(items, search_term) ==
    IF items = <<>> THEN <<>>
    ELSE ScrapeItem(Head(items), search_term)
            \o get_meetup_events(Tail(items), search_term)

\* meetup_task from its start to the await of the header send (lines
\* 392-448) with one location and one search term, the listings being what
\* get_meetup_events makes of a page.
ScrapeCycle ==
    \E t \in Clock, items \in Pages :
        /\ AggregateFrom(get_meetup_events(items, "ai"), t, t)
        /\ page' = items

NextScrape ==
    \/ ScrapeCycle /\ UNCHANGED <<loopvars, funvars>>
    \/ \E ok \in BOOLEAN : CycleHeader(ok) /\ UNCHANGED <<cyclevars, loopvars, funvars>>
    \/ CycleWake(TRUE) /\ UNCHANGED <<agg, page>> /\ Attempt /\ UNCHANGED <<loopvars, funvars>>
    \/ \E ok \in BOOLEAN : CycleSend(ok, TRUE) /\ UNCHANGED <<agg, page>> /\ Attempt /\ UNCHANGED <<loopvars, funvars>>

SpecScrape == Init /\ [][NextScrape]_vars

\* ------------------------------------------------- cleaning, by itself
\* Titles of up to MaxTitleLen characters: a word character, the space, an
\* emphasis character, the brackets and parentheses, "H" for "http://" and
\* a character line 707 disallows.
MaxTitleLen == 4
TitleChars == {"a", " ", "*", "[", "]", "(", ")", "H", "#"}
Titles == SeqsUpTo(TitleChars, MaxTitleLen)

InitClean ==
    /\ BotInit
    /\ LoopInit
    /\ wall = 0
    /\ immediate_mode = FALSE
    /\ given \in [status : {"title"}, title : Titles]
    /\ returned = NoValue

\* The pipeline of lines 689-710 on the title of an event.
Clean ==
    /\ given.status = "title"
    /\ returned = NoValue
    /\ returned' = [status |-> "cleaned", title |-> CleanTitle(given.title)]
    /\ UNCHANGED <<botvars, cyclevars, loopvars, given>>

\* The pipeline on the title it returned.
CleanAgain ==
    /\ returned.status = "cleaned"
    /\ returned' = [status |-> "cleaned_again", title |-> returned.title,
                    again |-> CleanTitle(returned.title)]
    /\ UNCHANGED <<botvars, cyclevars, loopvars, given>>

NextClean ==
    \/ Clean
    \/ CleanAgain

SpecClean == InitClean /\ [][NextClean]_vars

\* ------------------------------------------------------- the location
\* A JSON value is a record with its kind: "absent" for a key the object
\* does not have, "null", "str" for a string, "dict" for an object.
Absent == [kind |-> "absent"]
Null == [kind |-> "null"]
Str(text) == [kind |-> "str", text |-> text]

\* Coordinates as JSON prints them; None for a key geo does not have.
Coordinates == {"None", "0.0", "39.7"}

\* `if latitude and longitude` (line 634): None and zero are false.
Truthy(coordinate) == coordinate \notin {"None", "0.0"}

GeoValues ==
    {Absent, Null}
        \cup [kind : {"dict"}, latitude : Coordinates, longitude : Coordinates]

AddressValues ==
    {Absent, Str("Denver, CO")}
        \cup [kind : {"dict"}, streetAddress : {"", "1 Main St"},
              addressLocality : {"", "Denver"}]

\* The values of the key `location` of an item.
LocationValues ==
    {Absent, Null, Str("Hall")}
        \cup [kind : {"dict"}, name : {"", " ", "Hall"}, geo : GeoValues,
              address : AddressValues]

\* The values of the key `eventAttendanceMode` of an item.
ModeValues ==
    {Absent, Str("https://schema.org/OnlineEventAttendanceMode"),
     Str("https://schema.org/OfflineEventAttendanceMode")}

\* An item with a name, a url and a start, its location and its mode.
LocationItems ==
    [keys : {{"name", "url", "startDate"}}, name : {<<"a">>}, url : {"u1"},
     startDate : {IsoFormat(2)}, location : LocationValues,
     eventAttendanceMode : ModeValues]

\* ', '.join(filter(None, [streetAddress, addressLocality, addressRegion]))
\* (lines 646-650) for an address without a region.
JoinAddress(address) ==
    IF address.streetAddress = "" THEN address.addressLocality
    ELSE IF address.addressLocality = "" THEN address.streetAddress
    ELSE "1 Main St, Denver"

\* str(location_data) (line 654) of a value that is no object.
StrOf(value) == IF value.kind = "null" THEN "None" ELSE value.text

\* location of lines 627-654, as format_event_message reads it at line 734:
\* location['name'] of a dict, the string itself otherwise.
location_text(location_data) ==
    IF location_data.kind = "absent" THEN ""
    ELSE IF location_data.kind # "dict" THEN StrOf(location_data)
    ELSE LET name == location_data.name
             geo == location_data.geo
             located == /\ geo.kind = "dict"
                        /\ Truthy(geo.latitude)
                        /\ Truthy(geo.longitude)
             location == IF located
                         THEN (IF name # "" THEN name ELSE "Location TBD")
                         ELSE name
         IN IF ~located /\ location = "" /\ location_data.address.kind = "dict"
            THEN JoinAddress(location_data.address)
            ELSE location

\* attendance_mode of lines 660-664.
attendance_mode(item) ==
    IF item.eventAttendanceMode
          = Str("https://schema.org/OnlineEventAttendanceMode")
    THEN "online" ELSE "offline"

\* The event get_meetup_events makes of an item of LocationItems (lines
\* 617-675), its location as format_event_message reads it.
LocatedEvent(item) ==
    [title |-> item.name,
     time |-> FromIsoFormat(item.startDate),
     search_term |-> "ai",
     url |-> item.url,
     location |-> location_text(item.location),
     description |-> ""]

\* The item is scraped and its event formatted.
InitLocation ==
    /\ BotInit
    /\ LoopInit
    /\ wall = 0
    /\ immediate_mode = FALSE
    /\ given \in [status : {"item"}, item : LocationItems]
    /\ returned = NoValue

FormatLocated ==
    /\ given.status = "item"
    /\ returned = NoValue
    /\ returned' = [status |-> "formatted",
                    attendance_mode |-> attendance_mode(given.item),
                    location_text |-> location_text(given.item.location),
                    event_data |->
                        format_event_message(LocatedEvent(given.item))]
    /\ UNCHANGED <<botvars, cyclevars, loopvars, given>>

NextLocation == FormatLocated

SpecLocation == InitLocation /\ [][NextLocation]_vars

\* -------------------------------------------------------- the scheduler
\* The clock counts ticks, a tick being its resolution.  A day of the model
\* has MinutesPerDay minutes of TicksPerMinute ticks, a week has DaysPerWeek
\* days; tick 0 is Monday at midnight.
MaxWall == 60
TicksPerMinute == 2
MinutesPerDay == 2
DaysPerWeek == 7
TicksPerDay == TicksPerMinute * MinutesPerDay

\* post_day as calendar.MONDAY .. calendar.SUNDAY (lines 203, 383) and
\* post_time as the minute of the day (lines 204, 382).
post_day == 0
post_time == 1

\* now.weekday() and now.time()   (lines 383, 384)
weekday(t) == (t \div TicksPerDay) % DaysPerWeek
time_of_day(t) == t % TicksPerDay

\* post_time as a time of day: seconds and microseconds are zero.
PostTimeOfDay == post_time * TicksPerMinute

\* next_post of lines 383-386, computed from the reading t of the clock.
NextPost(t) ==
    LET days_to_day == (post_day - weekday(t)) % DaysPerWeek
        days_ahead == IF days_to_day = 0 /\ time_of_day(t) > PostTimeOfDay
                      THEN DaysPerWeek
                      ELSE days_to_day
    IN ((t \div TicksPerDay) + days_ahead) * TicksPerDay + PostTimeOfDay

\* The bot started in either mode at any instant of a week.
InitLoop ==
    /\ BotInit
    /\ LoopInit
    /\ FunInit
    /\ wall \in 0..(DaysPerWeek * TicksPerDay - 1)
    /\ immediate_mode \in BOOLEAN

\* `await self.meetup_task()` returns to its caller: weekly_meetup_task
\* goes round its loop (line 378), on_ready goes on to close (line 360).
Returned(c) ==
    IF c = "loop"
    THEN loop' = [loop EXCEPT !.pc = "compute"] /\ UNCHANGED ready
    ELSE ready' = "close" /\ UNCHANGED loop

\* An exception leaves meetup_task: weekly_meetup_task has no handler and
\* its task ends; the library logs the exception of on_ready, which ends
\* before line 360.
Raised(c) ==
    IF c = "loop"
    THEN loop' = [loop EXCEPT !.pc = "dead"] /\ UNCHANGED ready
    ELSE ready' = "failed" /\ UNCHANGED loop

\* The clock moves on while coroutines wait.
Tick ==
    /\ wall < MaxWall
    /\ wall' = wall + 1
    /\ UNCHANGED <<immediate_mode, closed, loop, ready, runs, started>>

\* The gateway is ready: on_ready is dispatched and wait_until_ready
\* returns (line 377).
GatewayReady ==
    /\ ready = "pending"
    /\ ready' = "dispatched"
    /\ loop' = [loop EXCEPT !.pc = "compute"]
    /\ UNCHANGED <<wall, immediate_mode, closed, runs, started>>

\* bot.close() (lines 355, 360): the bot is closed, bot.start returns and
\* asyncio.run cancels what is left (lines 813-815).
Terminate ==
    /\ closed' = TRUE
    /\ ready' = "done"
    /\ loop' = [loop EXCEPT !.pc = "cancelled"]
    /\ runs' = [c \in Callers |-> NoRun]

\* meetup_task from its entry to its first await (lines 392-448) for the
\* caller c: the fetches block for at least the delay of lines 408-410;
\* with nothing gathered it returns (line 415), else it awaits the header
\* send with `left` future events to post.
Enter(c, gathered, left) ==
    /\ wall < MaxWall
    /\ wall' = wall + 1
    /\ started' = started + 1
    /\ runs' = IF gathered
               THEN [runs EXCEPT ![c] = [pc |-> "header", left |-> left]]
               ELSE runs

\* on_ready (lines 350-360) to its first await.
OnReady(found, gathered, left) ==
    /\ ready = "dispatched"
    /\ IF ~found
       THEN /\ Terminate
            /\ UNCHANGED <<wall, started>>
       ELSE IF ~immediate_mode
       THEN /\ ready' = "done"
            /\ UNCHANGED <<wall, closed, loop, runs, started>>
       ELSE /\ Enter("ready", gathered, left)
            /\ ready' = IF gathered THEN "run" ELSE "close"
            /\ UNCHANGED <<closed, loop>>
    /\ UNCHANGED immediate_mode

\* on_ready after meetup_task has returned: await self.close() (line 360).
OnReadyClose ==
    /\ ready = "close"
    /\ Terminate
    /\ UNCHANGED <<wall, immediate_mode, started>>

\* weekly_meetup_task from the top of its loop to the sleep (lines 378-389).
LoopCompute ==
    /\ loop.pc = "compute"
    /\ loop' = IF closed
               THEN [loop EXCEPT !.pc = "exited"]
               ELSE [loop EXCEPT !.pc = "sleep", !.now = wall,
                                 !.next_post = NextPost(wall)]
    /\ UNCHANGED <<wall, immediate_mode, closed, ready, runs, started>>

\* asyncio.sleep(wait_seconds) returns, at or after next_post, and
\* weekly_meetup_task enters meetup_task (lines 389, 390).
LoopWake(gathered, left) ==
    /\ loop.pc = "sleep"
    /\ wall >= loop.next_post
    /\ Enter("loop", gathered, left)
    /\ loop' = [loop EXCEPT !.pc = IF gathered THEN "run" ELSE "compute",
                            !.fired = @ \cup {loop.next_post}]
    /\ UNCHANGED <<immediate_mode, closed, ready>>

\* The header send returns (lines 448-453): sent, meetup_task sleeps; on an
\* HTTPException it returns.
RunHeader(c, ok) ==
    /\ runs[c].pc = "header"
    /\ IF ok
       THEN /\ runs' = [runs EXCEPT ![c].pc = "sleep"]
            /\ UNCHANGED <<loop, ready>>
       ELSE /\ runs' = [runs EXCEPT ![c] = NoRun]
            /\ Returned(c)
    /\ UNCHANGED <<wall, immediate_mode, closed, started>>

\* The loop of lines 464-494 goes on: with no event left meetup_task
\* returns (line 496); else it formats the next event and runs the SELECT
\* of lines 470-476, whose sqlite3 error no handler of meetup_task catches
\* (line 492 catches HTTPException only), and it awaits channel.send.
Proceed(c, selectOk) ==
    IF runs[c].left = 0
    THEN /\ runs' = [runs EXCEPT ![c] = NoRun]
         /\ Returned(c)
    ELSE IF ~selectOk
    THEN /\ runs' = [runs EXCEPT ![c] = NoRun]
         /\ Raised(c)
    ELSE /\ runs' = [runs EXCEPT ![c] = [pc |-> "send", left |-> @.left - 1]]
         /\ UNCHANGED <<loop, ready>>

\* asyncio.sleep(2) returns (lines 450, 491).
RunWake(c, selectOk) ==
    /\ runs[c].pc = "sleep"
    /\ Proceed(c, selectOk)
    /\ UNCHANGED <<wall, immediate_mode, closed, started>>

\* channel.send of an event returns (lines 489-494): sent, meetup_task
\* sleeps; on an HTTPException the loop continues.
RunSend(c, ok, selectOk) ==
    /\ runs[c].pc = "send"
    /\ IF ok
       THEN /\ runs' = [runs EXCEPT ![c].pc = "sleep"]
            /\ UNCHANGED <<loop, ready>>
       ELSE Proceed(c, selectOk)
    /\ UNCHANGED <<wall, immediate_mode, closed, started>>

NextLoop ==
    \/ Tick /\ UNCHANGED <<botvars, cyclevars, funvars>>
    \/ GatewayReady /\ UNCHANGED <<botvars, cyclevars, funvars>>
    \/ \E found, gathered \in BOOLEAN, left \in 0..MaxListings :
          OnReady(found, gathered, left) /\ UNCHANGED <<botvars, cyclevars, funvars>>
    \/ OnReadyClose /\ UNCHANGED <<botvars, cyclevars, funvars>>
    \/ LoopCompute /\ UNCHANGED <<botvars, cyclevars, funvars>>
    \/ \E gathered \in BOOLEAN, left \in 0..MaxListings :
          LoopWake(gathered, left) /\ UNCHANGED <<botvars, cyclevars, funvars>>
    \/ \E c \in Callers, ok \in BOOLEAN :
          RunHeader(c, ok) /\ UNCHANGED <<botvars, cyclevars, funvars>>
    \/ \E c \in Callers, selectOk \in BOOLEAN :
          RunWake(c, selectOk) /\ UNCHANGED <<botvars, cyclevars, funvars>>
    \/ \E c \in Callers, ok, selectOk \in BOOLEAN :
          RunSend(c, ok, selectOk) /\ UNCHANGED <<botvars, cyclevars, funvars>>

SpecLoop == InitLoop /\ [][NextLoop]_vars

\* ------------------------------------------------------------- claims
\* A step of a restart.
IsRestart == \E loadOk \in BOOLEAN : Restart(loadOk)

\* The callback r takes a step: one copy of it leaves the bag.
Leaves(r) == r \in BagToSet(acts) /\ CopiesIn(r, acts') < CopiesIn(r, acts)

\* The callback r returns (or an exception leaves it) in this step.
Ends(r) == r \in BagToSet(acts) /\ acts' = acts (-) SetToBag({r}) /\ ~IsRestart

\* The scheduled events made for event_uuid.
ScheduledFor(event_uuid) ==
    { k \in 1..Len(scheduled) : scheduled[k].uuid = event_uuid }

\* C1: when two presses for one identifier overlap (the second looks the
\* record up before the first has removed it), the external action is
\* invoked at most once in total for that identifier.
C1_OverlapCreatesOnce ==
    \A k \in 1..Len(scheduled) :
        scheduled[k].raced => Cardinality(ScheduledFor(scheduled[k].uuid)) <= 1

\* C2: the external action succeeds at most once per logical event (cleaned
\* title, start instant), also when a later cycle discovers the event again
\* after its record was consumed; stated for that case: two successes for
\* one logical event from buttons published in different cycles.
C2_OncePerLogicalEvent ==
    \A j, k \in 1..Len(scheduled), m, n \in 1..Len(msgs) :
        (/\ scheduled[j].title = scheduled[k].title
         /\ scheduled[j].start_time = scheduled[k].start_time
         /\ msgs[m].uuid = scheduled[j].uuid
         /\ msgs[n].uuid = scheduled[k].uuid
         /\ msgs[m].cycle # msgs[n].cycle)
        => scheduled[j].uuid = scheduled[k].uuid

\* C3: with restarts at any point, also between the success of the external
\* action and the removal of the record, the external action succeeds at
\* most once per identifier; stated for a success before a restart and one
\* after it.
C3_OncePerIdAcrossRestarts ==
    \A j, k \in 1..Len(scheduled) :
        scheduled[j].uuid = scheduled[k].uuid
        => ~(scheduled[j].prior /\ ~scheduled[k].prior)

\* C4: when the external action of a press fails, the record stays in the
\* in-memory map and in the durable store, the message's button stays
\* enabled and nothing is removed: the failing step and the handler's step
\* after it change none of them, and as long as the action has not succeeded
\* for an identifier it failed for, that identifier's record is in both and
\* its buttons are enabled (so a later press can succeed).
C4_FailureStep(r) ==
    /\ Leaves(r)
    /\ ~IsRestart
    /\ r.found
    /\ ~r.created
    /\ \/ r.pc = "create" /\ scheduled' = scheduled
       \/ r.pc = "error"

C4_Pending(event_uuid) ==
    /\ event_uuid \in DOMAIN event_data_map
    /\ event_uuid \in DOMAIN db
    /\ \A m \in 1..Len(msgs) : msgs[m].uuid = event_uuid => ~msgs[m].disabled

C4_FailedActionKeepsRecord ==
    /\ [](\A f \in log :
             (f.what = "create_failed" /\ ScheduledFor(f.uuid) = {})
             => C4_Pending(f.uuid))
    /\ [][\A r \in BagToSet(acts) :
             C4_FailureStep(r) => UNCHANGED <<db, event_data_map, msgs>>]_vars

\* A press delivered after a failed one has created the scheduled event.
C4_Witness == \E k \in 1..Len(scheduled) : scheduled[k].retry

\* C5: a press whose identifier has no record invokes no external action,
\* changes neither the map nor the store nor a message's button, and ends
\* with the "not found" notice: it raises nothing of its own, and only a
\* notice the platform refuses takes it to the handler.
C5_NoRecordStep(r) ==
    /\ ~r.found
    /\ ~IsRestart
    /\ CopiesIn(r, acts') # CopiesIn(r, acts)

C5_NoRecordPress ==
    /\ [](\A r \in BagToSet(acts) :
             ~r.found => /\ ~r.created
                         /\ ~r.key_error
                         /\ r.pc \in {"not_found", "error"}
                         /\ (r.pc = "error" => r.send_failed))
    /\ [][\A r \in BagToSet(acts) \cup BagToSet(acts') :
             C5_NoRecordStep(r)
             => /\ UNCHANGED <<db, event_data_map, msgs, scheduled>>
                /\ (r.pc = "not_found" /\ Ends(r)
                    => [uuid |-> r.uuid, what |-> "not_found"] \in log')]_vars

\* A press for a consumed identifier has ended with the notice.
C5_Witness ==
    \E f \in log : /\ f.what = "not_found"
                   /\ f.uuid \notin DOMAIN event_data_map
                   /\ f.uuid \notin DOMAIN db
                   /\ ScheduledFor(f.uuid) # {}

\* C6: every removal of a record, from the map or from the store, is done by
\* a callback whose own external action for that identifier has succeeded.
C6_RemovalAfterSuccess ==
    [][\A event_uuid \in (DOMAIN db \ DOMAIN db')
                         \cup (DOMAIN event_data_map \ DOMAIN event_data_map') :
          \E r \in BagToSet(acts) :
             /\ r.uuid = event_uuid
             /\ r.created
             /\ r.pc = "confirm"
             /\ Leaves(r)]_vars

\* A record is gone from both, and its event is scheduled.
C6_Witness ==
    \E k \in 1..Len(scheduled) :
        /\ scheduled[k].uuid \notin DOMAIN db
        /\ scheduled[k].uuid \notin DOMAIN event_data_map

\* C7: every external action that succeeded is followed, in the same
\* callback, by the removal of that identifier's record, whatever becomes of
\* the message edit and of the confirmation in between: a callback whose
\* action succeeded ends by removing the record.
C7_SuccessThenConsume ==
    [][\A r \in BagToSet(acts) :
          (r.created /\ Ends(r))
          => /\ r.uuid \in DOMAIN event_data_map
             /\ r.uuid \notin DOMAIN event_data_map'
             /\ r.uuid \notin DOMAIN db']_vars

\* C8: reserving for a (title, start instant) that has a record gives that
\* record's identifier and adds nothing, reserving for one that has none
\* stores it under a new identifier, and the store never holds two records
\* for one (title, start instant).
C8_SameKey(row, event_data) ==
    /\ row.title = event_data.title
    /\ FromIsoFormat(row.start_time) = event_data.start_time

C8_Reserved ==
    /\ task'.pc = "send_event"
    /\ task' # task
    /\ ~IsRestart

C8_IdempotentReserve ==
    /\ [](\A u, v \in DOMAIN db :
             (db[u].title = db[v].title /\ db[u].start_time = db[v].start_time)
             => u = v)
    /\ [][C8_Reserved =>
             /\ task'.uuid \in DOMAIN db'
             /\ C8_SameKey(db'[task'.uuid], task'.event_data)
             /\ IF \E u \in DOMAIN db : C8_SameKey(db[u], task'.event_data)
                THEN task'.uuid \in DOMAIN db /\ db' = db /\ uuids' = uuids
                ELSE task'.uuid \notin DOMAIN db]_vars

\* The second cycle has reserved, for an event the first cycle published and
\* nobody consumed, the identifier the first cycle gave it.
C8_Witness ==
    /\ cycles = 2
    /\ task.pc = "send_event"
    /\ task.uuid \in DOMAIN db
    /\ scheduled = <<>>
    /\ \E m \in 1..Len(msgs) : msgs[m].uuid = task.uuid /\ msgs[m].cycle = 1

\* C9: after the removal of lines 149-150 for an identifier a lookup finds
\* nothing, and doing that removal again for the same identifier raises no
\* error and leaves the other records alone.
C9_SecondConsumeNoError ==
    \A r \in BagToSet(acts) : ~r.key_error

\* C10: a restart brings every record of the durable store back into the
\* in-memory map with the payload it had, registers an enabled view for
\* each, and brings back nothing else.
C10_SamePayload(a, b) ==
    /\ a.title = b.title
    /\ a.start_time = b.start_time
    /\ a.end_time = b.end_time
    /\ a.location = b.location
    /\ a.description = b.description
    /\ a.url = b.url

C10_RestartReloads ==
    [][Restart(TRUE) =>
          /\ DOMAIN event_data_map' = DOMAIN db
          /\ \A u \in DOMAIN db :
                /\ u \in DOMAIN event_data_map
                   => C10_SamePayload(event_data_map'[u], event_data_map[u])
                /\ CreateEventView(u, FALSE) \in views'
          /\ \A v \in views' : v.uuid \in DOMAIN db /\ ~v.disabled]_vars

\* After a restart a published record is back, loaded from the store, with
\* its view, while a record consumed before the restart is not.
C10_Witness ==
    /\ \E u \in DOMAIN event_data_map :
          /\ "calendar_url" \in DOMAIN event_data_map[u]
          /\ CreateEventView(u, FALSE) \in views
          /\ \E m \in 1..Len(msgs) : msgs[m].uuid = u /\ ~msgs[m].disabled
    /\ \E k \in 1..Len(scheduled) :
          /\ scheduled[k].prior
          /\ scheduled[k].uuid \notin DOMAIN event_data_map
          /\ \A v \in views : v.uuid # scheduled[k].uuid

\* C11: between operations the lookup of line 85 finds an identifier in
\* event_data_map exactly when the table of the durable store has a row for
\* it, also after a save, a delete or a load of the store has failed.
C11_MapIffStore == DOMAIN event_data_map = DOMAIN db

\* The event e is one of the events of the sequence evs.
InSeq(e, evs) == \E k \in 1..Len(evs) : evs[k] = e

\* The places of evs that hold an event of this title and start instant.
PlacesOf(title, time, evs) ==
    { k \in 1..Len(evs) : evs[k].title = title /\ evs[k].time = time }

\* C12: two listings gathered in one cycle that share a title and differ in
\* start instant, both in the future, both survive the deduplication of
\* line 417 and both reach the sequence that is published.
C12_SameTitleDistinctStarts ==
    \A i, j \in 1..Len(agg.all_events) :
        LET a == agg.all_events[i]
            b == agg.all_events[j]
        IN (a.title = b.title /\ a.time # b.time
            /\ a.time > agg.now /\ b.time > agg.now)
           => /\ PlacesOf(a.title, a.time, agg.unique_events) # {}
              /\ PlacesOf(b.title, b.time, agg.unique_events) # {}
              /\ PlacesOf(a.title, a.time, agg.sorted_events) # {}
              /\ PlacesOf(b.title, b.time, agg.sorted_events) # {}

\* C13: for two listings gathered in one cycle with the same title and the
\* same start instant and different search terms, the deduplicated sequence
\* holds exactly one event of that title and start, the sorted sequence
\* holds it once when it lies in the future, and the publish loop comes to
\* it at most once.
C13_OneEventPerPair ==
    \A i, j \in 1..Len(agg.all_events) :
        LET a == agg.all_events[i]
            b == agg.all_events[j]
        IN (a.title = b.title /\ a.time = b.time
            /\ a.search_term # b.search_term)
           => /\ Cardinality(PlacesOf(a.title, a.time, agg.unique_events)) = 1
              /\ Cardinality(PlacesOf(a.title, a.time, agg.sorted_events))
                    = IF a.time > agg.now THEN 1 ELSE 0
              /\ Cardinality(PlacesOf(a.title, a.time, attempts)) <= 1

\* C14: every event meetup_task reserves an identifier for or sends a
\* message for starts strictly after the instant `now` of line 422 of that
\* cycle.
C14_OnlyFutureEvents ==
    /\ [](/\ \A k \in 1..Len(attempts) : attempts[k].time > agg.now
          /\ task.pc = "send_event" => task.event_data.start_time > agg.now)
    /\ [][\A u \in DOMAIN db' \ DOMAIN db :
             FromIsoFormat(db'[u].start_time) > agg.now]_vars

\* A cycle that gathered a listing starting at its `now` has come to another
\* event and not to that one.
C14_Witness ==
    /\ attempts # <<>>
    /\ \E i \in 1..Len(agg.all_events) :
          /\ agg.all_events[i].time = agg.now
          /\ ~InSeq(agg.all_events[i], attempts)

\* C15: every event that survives the deduplication and the future filter
\* gets a publish attempt in that cycle, whichever of the two buckets its
\* whole days ahead put it in, or neither; no event is in both buckets.
C15_SurvivorsAttempted ==
    /\ \A k \in 1..Len(agg.this_week) : ~InSeq(agg.this_week[k], agg.next_week)
    /\ task.pc = "idle"
       => \A k \in 1..Len(agg.future_events) :
             InSeq(agg.future_events[k], attempts)

\* C16: a failed send of one message of a cycle, the header or an event's,
\* costs that message only: while events remain, the cycle goes on to them.
C16_FailureCostsOneMessage ==
    [][(task.pc \in {"send_header", "send_event"} /\ task.queue # <<>>)
       => task'.pc # "idle"]_vars

\* The item has a title, a URL and a start time.
C20_Complete(item) ==
    /\ ItemGet(item, "name", <<>>) # <<>>
    /\ ItemGet(item, "url", "") # ""
    /\ ItemGet(item, "startDate", <<>>) # <<>>

\* C20: get_meetup_events drops a raw listing that lacks a title, a URL or
\* a start time: it returns no more events than the page has complete
\* items, none with an empty title or URL, and none such is reserved or
\* published.
C20_IncompleteListingsDropped ==
    /\ Len(agg.all_events)
          <= Cardinality({ i \in 1..Len(page) : C20_Complete(page[i]) })
    /\ \A k \in 1..Len(agg.all_events) :
          agg.all_events[k].title # <<>> /\ agg.all_events[k].url # ""
    /\ \A k \in 1..Len(attempts) :
          attempts[k].title # <<>> /\ attempts[k].url # ""
    /\ \A u \in DOMAIN db : db[u].title # <<>> /\ db[u].url # ""

\* weekly_meetup_task has computed a fire instant in this step.
Computes == loop.pc = "compute" /\ loop'.pc = "sleep"

\* weekly_meetup_task wakes and enters a cycle in this step.
Fires == loop.pc = "sleep" /\ loop'.pc \in {"run", "compute"}

\* C17: each fire instant weekly_meetup_task computes falls on the configured
\* weekday at the configured time of day and is strictly later than the now
\* it was computed from, and no two cycles fire for the same instant.
C17_NextFireStrictlyLater ==
    /\ [][Computes =>
             /\ weekday(loop'.next_post) = post_day
             /\ time_of_day(loop'.next_post) = PostTimeOfDay
             /\ loop'.next_post > loop'.now]_vars
    /\ [][Fires => loop.next_post \notin loop.fired]_vars

\* C18: in scheduled mode, while the bot is not closed, every cycle the loop
\* runs ends with the loop back at the computation of its next fire instant,
\* whatever happened inside the cycle.
C18_LoopGoesOnAfterEveryCycle ==
    [][(~immediate_mode /\ ~closed' /\ loop.pc = "run" /\ loop'.pc # "run")
           => loop'.pc = "compute"]_vars

\* C19: in immediate mode one cycle runs, the loop task runs none, no two
\* cycles run at once, and the cycle that ended is followed by termination.
C19_ImmediateRunsOneCycle ==
    immediate_mode =>
        /\ started <= 1
        /\ runs["loop"].pc = "none"
        /\ ready # "failed"

\* The item names no place: no name, no coordinates, no address.
Unresolvable(location_data) ==
    \/ location_data.kind \in {"absent", "null"}
    \/ /\ location_data.kind = "dict"
       /\ Strip(location_data.name) = ""
       /\ ~(/\ location_data.geo.kind = "dict"
            /\ Truthy(location_data.geo.latitude)
            /\ Truthy(location_data.geo.longitude))
       /\ \/ location_data.address.kind # "dict"
          \/ JoinAddress(location_data.address) = ""

\* C21: the location stored in the action payload is "Online" only when the
\* item names no place and its attendance mode is online; when it names no
\* place and the mode is offline, the stored location is empty.
C21_OnlineOnlyWhenOnline ==
    returned.status = "formatted" =>
        LET stored == returned.event_data.location
            nowhere == Unresolvable(given.item.location)
        IN /\ stored = "Online"
                => (nowhere /\ returned.attendance_mode = "online")
           /\ (nowhere /\ returned.attendance_mode = "offline")
                => stored = ""

\* C22: the title-cleaning pipeline is idempotent: cleaning a cleaned title
\* returns it unchanged.
C22_CleaningIdempotent ==
    returned.status = "cleaned_again" => returned.again = returned.title

\* A title that cleaning changed, and not to the empty title, was cleaned
\* again.
C22_Witness ==
    /\ returned.status = "cleaned_again"
    /\ returned.title # given.title
    /\ returned.title # <<>>

\* The first place of evs that holds an event of this search term.
FirstOf(search_term, evs) ==
    CHOOSE k \in 1..Len(evs) :
        /\ evs[k].search_term = search_term
        /\ \A j \in 1..(k - 1) : evs[j].search_term # search_term

\* C23: the events a cycle sends come grouped by search term: the events of
\* one term are contiguous, the groups come in the order of each term's
\* earliest event in the sorted sequence, and inside a group the start
\* instants do not decrease.
C23_GroupedBySearchTerm ==
    \A i, j \in 1..Len(attempts) :
        i < j =>
            LET a == attempts[i]
                b == attempts[j]
            IN /\ a.search_term = b.search_term
                    => /\ a.time <= b.time
                       /\ \A k \in i..j :
                             attempts[k].search_term = a.search_term
               /\ a.search_term # b.search_term
                    => FirstOf(a.search_term, agg.sorted_events)
                          < FirstOf(b.search_term, agg.sorted_events)

\* A cycle has ended that sent three events in another order than the sorted
\* one.
C23_Witness ==
    /\ task.pc = "idle"
    /\ Len(attempts) = 3
    /\ attempts # agg.sorted_events

\* channel.send of an event's message has returned in this step: the message
\* is in the channel with its control enabled.
Sends == Len(msgs') > Len(msgs)

\* C24: a message a cycle sends with an enabled control carries an
\* identifier whose record is pending, in the map and in the store, also
\* when an activation for that identifier was in flight at the cycle's
\* lookup and completed while the cycle awaited the send.
C24_SentIdentifierIsPending ==
    [][Sends =>
          LET sent == msgs'[Len(msgs')]
          IN sent.uuid \in DOMAIN event_data_map' \cap DOMAIN db']_vars

\* C25: a message whose control is disabled refers to an identifier that is
\* in neither the map nor the store once no activation for it is in flight,
\* also when the confirmation or the removal failed after the edit; and a
\* disabled control never becomes enabled again.
C25_DisabledMeansConsumed ==
    /\ [](\A m \in 1..Len(msgs) :
             (msgs[m].disabled /\ Holding(msgs[m].uuid) = {}
              /\ \A r \in BagToSet(acts) : r.uuid # msgs[m].uuid)
                => msgs[m].uuid \notin DOMAIN event_data_map \cup DOMAIN db)
    /\ [][\A m \in 1..Len(msgs) : msgs[m].disabled => msgs'[m].disabled]_vars

\* C26: every record of the durable store is referenced by a message that
\* was sent to the channel, the record of the send a cycle is awaiting
\* apart: a failed send leaves no pending record behind.
C26_RecordsHaveMessages ==
    \A u \in DOMAIN db :
        \/ \E m \in 1..Len(msgs) : msgs[m].uuid = u
        \/ task.pc = "send_event" /\ task.uuid = u

\* The identifiers the SELECT of lines 470-476 finds for the event the
\* publish loop comes to next.
FoundForNext ==
    LET event_data == format_event_message(Head(task.queue))
    IN SelectUuid(db, event_data.title, event_data.start_time)

\* The publish loop comes to its next event in this step.
ComesToNext ==
    /\ task.pc \in {"sleep", "send_event"}
    /\ task.queue # <<>>
    /\ task'.pc = "send_event"
    /\ task'.queue = Tail(task.queue)

\* C27: when a cycle finds an existing record for an event's title and
\* start, it reuses the identifier and changes nothing: the map and the
\* store are what they were, no record is added, changed or removed, and no
\* identifier is handed out.
C27_ReuseChangesNothing ==
    [][(ComesToNext /\ FoundForNext # {})
          => /\ task'.uuid \in FoundForNext
             /\ event_data_map' = event_data_map
             /\ db' = db
             /\ uuids' = uuids]_vars

\* The cycle awaits the send of a message for an identifier that a message
\* in the channel already carries: it was found, not reserved.
C27_Witness ==
    /\ task.pc = "send_event"
    /\ task.uuid \in DOMAIN db
    /\ \E m \in 1..Len(msgs) : msgs[m].uuid = task.uuid

============================================================================
